---- MODULE Spec2Model ----
(***************************************************************************)
(* Model of src/src/interceptor.js: a local reverse proxy that compresses  *)
(* the long text blocks of a chat payload through a compression service    *)
(* and forwards the (possibly rewritten) request to the upstream API.      *)
(*                                                                         *)
(* The program runs on one JavaScript thread: a handler runs to completion *)
(* between two suspension points (await, I/O callback), so every action    *)
(* below is one such run.                                                  *)
(***************************************************************************)
EXTENDS Integers, Sequences, FiniteSets, TLC

\* ------------------------------------------------------------------ bounds
NReq == 2          \* inbound requests in flight together
MaxChunks == 2     \* chunks of an upstream response body
MaxMsgs == 2       \* messages of a payload (payloads of every shape)
MaxTok == 2        \* token counts the compression service reports: -MaxTok..MaxTok

\* ------------------------------------------------------------ configuration
\* config.minTextLength, parseInt(process.env.MIN_TEXT_LENGTH || "150")
minTextLength == 150

VARIABLES
    ttcKey,     \* config.ttcKey is set (TRUE) or undefined (FALSE)
    stats,      \* the lifetime counters
    crashed,    \* an exception left a callback uncaught: the process is gone
    rq,         \* per inbound request: the position of its handleRequest
    ct          \* one compressText call observed alone

vars == <<ttcKey, stats, crashed, rq, ct>>

\* -------------------------------------------------------------------- texts
\* A JavaScript string: what it holds (id) and its length.
EmptyText == [id |-> "", len |-> 0]
TextIds == {"a", "b"}
TextLens == {minTextLength - 1, minTextLength, minTextLength + 1}
Texts == {EmptyText} \cup {[id |-> i, len |-> n] : i \in TextIds, n \in TextLens}

\* JavaScript truthiness of a string: only "" is falsy.
Truthy(text) == text.len > 0

\* ------------------------------------------------- compression service data
\* What the response body of the compression service decodes to.
\*   garbage  : JSON.parse throws (not JSON, or JSON cut short)
\*   null     : the JSON value null (json.output throws a TypeError)
\*   notokens : an object with output but without the token counts
\*   obj      : {output, output_tokens, original_input_tokens}
TokenCounts == (-MaxTok)..MaxTok
Responses ==
    {[kind |-> k, output |-> EmptyText, output_tokens |-> 0, original_input_tokens |-> 0] :
        k \in {"garbage", "null"}}
    \cup {[kind |-> "notokens", output |-> o, output_tokens |-> 0, original_input_tokens |-> 0] :
        o \in Texts}
    \cup {[kind |-> "obj", output |-> o, output_tokens |-> t, original_input_tokens |-> n] :
        o \in Texts, t \in TokenCounts, n \in TokenCounts}

NoData == [kind |-> "none", output |-> EmptyText, output_tokens |-> 0, original_input_tokens |-> 0]

\* ------------------------------------------------------------ compressText
\* { text, saved: 0, original: 0 }
Fallback(text) == [text |-> text, saved |-> 0, original |-> 0]

\* The body of res.on("end") with <= for <.
ParseResponseLe(text, data) ==
    IF data.kind \in {"garbage", "null", "notokens"}
    THEN Fallback(text)
    ELSE IF Truthy(data.output) /\ data.output_tokens <= data.original_input_tokens
         THEN [text |-> data.output,
               saved |-> data.original_input_tokens - data.output_tokens,
               original |-> data.original_input_tokens]
         ELSE Fallback(text)

\* The body of res.on("end"): the value the promise is resolved with.
ParseResponse(text, data) ==
    IF data.kind \in {"garbage", "null"}
    THEN Fallback(text)                 \* catch (e): parse error
    ELSE IF data.kind = "notokens"
    THEN Fallback(text)                 \* undefined < undefined is false
    ELSE IF Truthy(data.output) /\ data.output_tokens < data.original_input_tokens
         THEN [text |-> data.output,
               saved |-> data.original_input_tokens - data.output_tokens,
               original |-> data.original_input_tokens]
         ELSE Fallback(text)

\* A compressText call: its promise (settled, result), its outbound request
\* (net: none = never issued, open, destroyed = req.destroy() called,
\* closed), and the event that settled it (via, data).
NoCall ==
    [text |-> EmptyText, net |-> "none", settled |-> FALSE,
     result |-> Fallback(EmptyText), via |-> "none", data |-> NoData]

\* resolve(v): the first call settles the promise, later ones do nothing.
Resolve(c, v, how, d) ==
    IF c.settled THEN c
    ELSE [c EXCEPT !.settled = TRUE, !.result = v, !.via = how, !.data = d]

\* compressText without the test of config.ttcKey.
compressTextIgnoringKey(text) ==
    IF ~Truthy(text) \/ text.len < minTextLength
    THEN [NoCall EXCEPT !.text = text, !.settled = TRUE,
                        !.result = Fallback(text), !.via = "skip"]
    ELSE [NoCall EXCEPT !.text = text, !.net = "open"]

\* compressText(text) up to the return of its promise.
compressText(text) ==
    IF ~ttcKey \/ ~Truthy(text) \/ text.len < minTextLength
    THEN [NoCall EXCEPT !.text = text, !.settled = TRUE,
                        !.result = Fallback(text), !.via = "skip"]
    ELSE [NoCall EXCEPT !.text = text, !.net = "open"]

\* res.on("end")
resOnEnd(c, data) ==
    [Resolve(c, ParseResponse(c.text, data), "end", data)
        EXCEPT !.net = "closed"]

\* req.on("error") resolving with { saved: 0, original: 0 }: no text.
reqOnErrorNoText(c) ==
    [Resolve(c, Fallback(EmptyText), "error", NoData) EXCEPT !.net = "closed"]

\* req.on("error")
reqOnError(c) ==
    [Resolve(c, Fallback(c.text), "error", NoData)
        EXCEPT !.net = "closed"]

\* req.on("timeout"): req.destroy(), then resolve
reqOnTimeout(c) ==
    [Resolve(c, Fallback(c.text), "timeout", NoData)
        EXCEPT !.net = "destroyed"]

\* The response is cut short by a close of the connection: Node emits
\* 'aborted' and 'close' on res, neither 'end' on res nor 'error' on req, and
\* the socket timeout is gone with the socket. No listener of the call runs.
resAborted(c) == [c EXCEPT !.net = "closed"]

\* The events Node can deliver to a call, by the state of its request.
CanEnd(c) == c.net = "open"
CanError(c) == c.net \in {"open", "destroyed"}
CanTimeout(c) == c.net = "open"
CanAbort(c) == c.net = "open"

\* ------------------------------------------------------------ JSON bodies
\* A JSON number as it is written in a body, and as JSON.parse reads it: the
\* nearest IEEE-754 double, so 2^53 + 1 is read as 2^53. JSON.stringify
\* writes a double back in its own shortest form.
\* The numbers of the bodies here are 7 and 2^53 + 1.
ToDouble(lexeme) == IF lexeme = "9007199254740993" THEN "9007199254740992" ELSE lexeme

\* The texts of a payload: at the threshold (not eligible) and above it.
ShortA == [id |-> "a", len |-> minTextLength]
LongA == [id |-> "a", len |-> minTextLength + 1]
LongB == [id |-> "b", len |-> minTextLength + 1]

\* JSON values, tagged by t. A payload object keeps its messages and one
\* more field (extra); a message its role, content and one more field; a
\* block its type, text and one more field.
Null == [t |-> "null"]
Undef == [t |-> "undef"]
Num(n) == [t |-> "num", n |-> n]
Str(text) == [t |-> "str", s |-> text]
Arr(seq) == [t |-> "arr", a |-> seq]
Block(type, text, extra) == [t |-> "obj", type |-> type, text |-> text, extra |-> extra]
Msg(role, content, extra) == [t |-> "obj", role |-> role, content |-> content, extra |-> extra]
Payload(messages, extra) == [t |-> "obj", messages |-> messages, extra |-> extra]

\* A request body: none (no chunk was read: body = null), garbage (a string
\* JSON.parse rejects), or the text of a JSON value.
NoBody == [kind |-> "none", val |-> Null]
Garbage == [kind |-> "garbage", val |-> Null]
Json(val) == [kind |-> "json", val |-> val]

\* The bytes of a body that are not UTF-8 (an upload, a compressed body), and
\* the string they decode to: every ill-formed sequence becomes U+FFFD.
Binary == [kind |-> "binary", val |-> Null]
Replaced == [kind |-> "replaced", val |-> Null]

\* Buffer.concat(chunks).toString("utf-8"), or null when no chunk was read.
toString(bytes) == IF bytes.kind = "binary" THEN Replaced ELSE bytes

ParseBlock(b) == IF b.t = "obj" THEN [b EXCEPT !.extra = ToDouble(@)] ELSE b
ParseContent(c) ==
    IF c.t = "arr" THEN Arr([k \in DOMAIN c.a |-> ParseBlock(c.a[k])]) ELSE c
ParseMsg(m) ==
    IF m.t = "obj"
    THEN [m EXCEPT !.content = ParseContent(@), !.extra = ToDouble(@)]
    ELSE m
ParseMessages(ms) ==
    IF ms.t = "arr" THEN Arr([k \in DOMAIN ms.a |-> ParseMsg(ms.a[k])])
    ELSE IF ms.t = "num" THEN Num(ToDouble(ms.n))
    ELSE ms

\* JSON.parse(bodyStr) of a body that parses.
JSONparse(bodyStr) ==
    LET v == bodyStr.val IN
    IF v.t = "obj"
    THEN [v EXCEPT !.messages = ParseMessages(@), !.extra = ToDouble(@)]
    ELSE IF v.t = "num" THEN Num(ToDouble(v.n))
    ELSE v

\* JSON.stringify(body)
JSONstringify(val) == Json(val)

\* The sum of f over S.
RECURSIVE SumOver(_, _)
SumOver(f, S) ==
    IF S = {} THEN 0
    ELSE LET x == CHOOSE y \in S : TRUE IN f[x] + SumOver(f, S \ {x})

\* Buffer.byteLength(body): the bytes of a body or of the string it decodes
\* to. The texts here are ASCII; a JSON body counts its braces and its
\* texts, one ill-formed byte decodes to the three bytes of U+FFFD.
BlockBytes(b) == IF b.t = "obj" THEN b.text.len ELSE 0
ContentBytes(c) ==
    IF c.t = "str" THEN c.s.len
    ELSE IF c.t = "arr" THEN SumOver([j \in DOMAIN c.a |-> BlockBytes(c.a[j])], DOMAIN c.a)
    ELSE 0
MsgBytes(m) == IF m.t = "obj" THEN ContentBytes(m.content) ELSE 0
byteLength(body) ==
    IF body.kind = "none" THEN 0
    ELSE IF body.kind = "replaced" THEN 3
    ELSE IF body.kind \in {"garbage", "binary"} THEN 1
    ELSE LET v == body.val IN
         IF v.t = "obj" /\ v.messages.t = "arr"
         THEN 2 + SumOver([i \in DOMAIN v.messages.a |-> MsgBytes(v.messages.a[i])],
                          DOMAIN v.messages.a)
         ELSE 2

\* ---------------------------------------------------------------- headers
\* A header object: a function from the (lower-case) names present to their
\* values.
NoHeaders == [n \in {} |-> ""]

\* { ...headers }
spread(h) == [n \in DOMAIN h |-> h[n]]
\* headers[name] = value
SetHeader(h, name, value) ==
    [n \in DOMAIN h \cup {name} |-> IF n = name THEN value ELSE h[n]]
\* delete headers[name], for the names of a set
DeleteHeaders(h, names) == [n \in DOMAIN h \ names |-> h[n]]

\* config.anthropicHost
anthropicHost == "api.anthropic.com"

\* forwardHeaders that keeps the content-length the caller sent.
forwardHeadersStaleLength(headers, body) ==
    DeleteHeaders(SetHeader(spread(headers), "host", anthropicHost),
                  {"connection", "keep-alive", "transfer-encoding"})

\* The headers of the upstream request: a copy of the inbound ones with host
\* rewritten, content-length set if (body), and the hop-by-hop ones deleted.
forwardHeaders(headers, body) ==
    LET h1 == SetHeader(spread(headers), "host", anthropicHost)
        h2 == IF body.kind # "none"
              THEN SetHeader(h1, "content-length", byteLength(body))
              ELSE h1
    IN DeleteHeaders(h2, {"connection", "keep-alive", "transfer-encoding"})

\* The headers a caller sends with a body: the body is announced by its
\* length or sent chunked.
CallerHeaders ==
    ("host" :> "127.0.0.1:8877") @@ ("x-api-key" :> "key")
    @@ ("anthropic-version" :> "2023-06-01") @@ ("connection" :> "keep-alive")
Framings == {"length", "chunked"}
InHeaders(inbound, framing) ==
    IF framing = "length"
    THEN IF inbound.kind = "none" THEN CallerHeaders
         ELSE CallerHeaders @@ ("content-length" :> byteLength(inbound))
    ELSE IF inbound.kind = "none" THEN CallerHeaders @@ ("keep-alive" :> "timeout=5")
         ELSE CallerHeaders @@ ("keep-alive" :> "timeout=5")
              @@ ("transfer-encoding" :> "chunked")

\* The header objects of the upstream's responses (proxyRes.headers).
JsonHeaders == ("content-type" :> "application/json") @@ ("request-id" :> "req_1")
SseHeaders == ("content-type" :> "text/event-stream") @@ ("transfer-encoding" :> "chunked")
UpHeaders == {JsonHeaders, SseHeaders}

\* What the upstream has sent so far of its response.
NoUp == [status |-> 0, headers |-> NoHeaders, chunks |-> <<>>]

\* --------------------------------------------------------- processPayload
\* The position of processPayload in its loops: the decoded body (mutated in
\* place), the message i and block j it is at, and its two sums.
WalkInit(body) ==
    [work |-> body, i |-> 1, j |-> 1, totalSaved |-> 0, totalOriginal |-> 0]

NextMsg(w) == [w EXCEPT !.i = @ + 1, !.j = 1]
NextBlock(w) == [w EXCEPT !.j = @ + 1]

\* The three lines after an await with only the text replaced (the sums
\* are forgotten).
ApplyResultNoSum(w, result) ==
    LET m == w.work.messages.a[w.i] IN
    IF m.content.t = "str"
    THEN NextMsg([w EXCEPT !.work.messages.a[w.i].content.s = result.text])
    ELSE NextBlock([w EXCEPT !.work.messages.a[w.i].content.a[w.j].text = result.text])

\* The three lines after an await: msg.content = result.text (or
\* block.text = result.text), totalSaved += result.saved,
\* totalOriginal += result.original.
ApplyResult(w, result) ==
    LET m == w.work.messages.a[w.i]
        sums == [w EXCEPT !.totalSaved = @ + result.saved,
                          !.totalOriginal = @ + result.original]
    IN
    IF m.content.t = "str"
    THEN NextMsg([sums EXCEPT !.work.messages.a[w.i].content.s = result.text])
    ELSE NextBlock([sums EXCEPT !.work.messages.a[w.i].content.a[w.j].text = result.text])

\* The walk from w to where it next stops: at an await of a compressText
\* call that went out (stop = "await"), at the end of the loops ("end"), or
\* at a TypeError ("throw"). A call that returns at once is applied on the
\* way.
RECURSIVE Walk(_)
Issue(w, text) ==
    LET c == compressText(text) IN
    IF c.settled THEN Walk(ApplyResult(w, c.result))
    ELSE [w |-> w, stop |-> "await", call |-> c]

Walk(w) ==
    LET msgs == w.work.messages.a IN
    IF w.i > Len(msgs) THEN [w |-> w, stop |-> "end", call |-> NoCall]
    ELSE LET msg == msgs[w.i] IN
         IF msg.t # "obj" THEN [w |-> w, stop |-> "throw", call |-> NoCall]
         ELSE IF msg.role \notin {"user", "assistant"} THEN Walk(NextMsg(w))
         ELSE IF msg.content.t = "str"
         THEN IF msg.content.s.len > minTextLength
              THEN Issue(w, msg.content.s)
              ELSE Walk(NextMsg(w))
         ELSE IF msg.content.t = "arr"
         THEN IF w.j > Len(msg.content.a) THEN Walk(NextMsg(w))
              ELSE LET block == msg.content.a[w.j] IN
                   IF block.t # "obj" THEN [w |-> w, stop |-> "throw", call |-> NoCall]
                   ELSE IF /\ block.type = "text"
                           /\ Truthy(block.text)
                           /\ block.text.len > minTextLength
                   THEN Issue(w, block.text)
                   ELSE Walk(NextBlock(w))
         ELSE Walk(NextMsg(w))

\* What processPayload returns.
PayloadResult(body, saved, original) ==
    [body |-> body, totalSaved |-> saved, totalOriginal |-> original]

\* return { body: bodyStr, totalSaved: 0, totalOriginal: 0 }
Untouched(bodyStr) == PayloadResult(bodyStr, 0, 0)

\* The catch block returning the re-encoded, half-rewritten body.
OnThrowPartial(bodyStr, w) == PayloadResult(JSONstringify(w.work), w.totalSaved, w.totalOriginal)

\* catch (e): the original body and zero totals, whatever w holds by then.
OnThrow(bodyStr, w) == Untouched(bodyStr)

\* return { body: JSON.stringify(body), totalSaved, totalOriginal }
OnEnd(w) == PayloadResult(JSONstringify(w.work), w.totalSaved, w.totalOriginal)

\* processPayload(bodyStr) from its first line to its first stop.
\* stop = "return" carries the result; stop = "await" carries the call; how
\* tells the return of the last line (end) from the one of the catch block
\* (throw) and the one of the second line (nomessages).
Stopped(bodyStr, step) ==
    IF step.stop = "await"
    THEN [stop |-> "await", how |-> "await", w |-> step.w, call |-> step.call,
          result |-> Untouched(bodyStr)]
    ELSE [stop |-> "return", how |-> step.stop, w |-> step.w, call |-> step.call,
          result |-> IF step.stop = "end" THEN OnEnd(step.w) ELSE OnThrow(bodyStr, step.w)]

processPayload(bodyStr) ==
    LET none == WalkInit(Null) IN
    IF bodyStr.kind \in {"garbage", "replaced"}
    THEN Stopped(bodyStr, [w |-> none, stop |-> "throw", call |-> NoCall])
    ELSE LET body == JSONparse(bodyStr) IN
         IF body.t = "null"                      \* null.messages: TypeError
         THEN Stopped(bodyStr, [w |-> WalkInit(body), stop |-> "throw", call |-> NoCall])
         ELSE IF body.t # "obj" \/ body.messages.t \in {"undef", "null"}
         THEN [stop |-> "return", how |-> "nomessages", w |-> WalkInit(body),
               call |-> NoCall, result |-> Untouched(bodyStr)]  \* if (!body.messages)
         ELSE IF body.messages.t # "arr"         \* for (... of 5): TypeError
         THEN Stopped(bodyStr, [w |-> WalkInit(body), stop |-> "throw", call |-> NoCall])
         ELSE Stopped(bodyStr, Walk(WalkInit(body)))

\* processPayload resumed after its await with the call's result.
resumePayload(bodyStr, w, result) == Stopped(bodyStr, Walk(ApplyResult(w, result)))

\* ----------------------------------------------------------- handleRequest
Reqs == 1..NReq

\* An inbound request and the locals of its handleRequest:
\*   pc       idle (not yet received), reading (for await ... of req),
\*            compressing (await processPayload), forwarding (proxyReq is
\*            open, no response yet), relaying (proxyRes.pipe(clientRes)),
\*            done (clientRes ended), stalled (the pipe lost its source)
\*   inbound  the body the caller sends; body: the local variable body
\*   w, call  where processPayload stands, and the call it awaits
\*   result   what processPayload returned (transformed: it was called and
\*            has returned)
\*   headers  the inbound headers (req.headers)
\*   opens, fwd, sent   upstream requests opened, and the headers and the body
\*            written to the last
\*   head, rheaders, chunks, diag, ended   what was written to clientRes
\*   up       what the upstream sent
\*   dropped  the caller's connection is gone; rejected: the promise of
\*            handleRequest was rejected
\*   log      the compression calls that have settled: where, and how
\*   how      how processPayload returned; upfail: the upstream connection
\*            failed; during: a request received earlier was suspended in
\*            its own processPayload when this one's returned
IdleReq ==
    [pc |-> "idle", method |-> "GET", url |-> FALSE, inbound |-> NoBody,
     body |-> NoBody, w |-> WalkInit(Null), call |-> NoCall, log |-> <<>>,
     result |-> Untouched(NoBody), transformed |-> FALSE, how |-> "none",
     opens |-> 0, sent |-> NoBody, head |-> <<>>, chunks |-> <<>>,
     diag |-> FALSE, ended |-> FALSE, upfail |-> FALSE, during |-> FALSE,
     headers |-> NoHeaders, fwd |-> NoHeaders, rheaders |-> NoHeaders, up |-> NoUp,
     dropped |-> FALSE, rejected |-> FALSE]

\* urlPath.includes("/messages") && req.method === "POST"
isMessagesEndpoint(q) == q.url /\ q.method = "POST"

\* stats.requests++ skipped for requests that are not for the endpoint.
CountRequestIfEndpoint(st, q) ==
    IF isMessagesEndpoint(q) THEN [st EXCEPT !.requests = @ + 1] ELSE st

\* stats.requests++
CountRequest(st, q) == [st EXCEPT !.requests = @ + 1]

\* The three updates of stats written as assignments of this request's
\* totals.
AddTotalsOverwrite(st, result) ==
    [st EXCEPT !.tokensSaved = result.totalSaved,
               !.originalTokens = result.totalOriginal,
               !.compressed = IF result.totalSaved > 0 THEN @ + 1 ELSE @]

\* stats.tokensSaved += result.totalSaved; stats.originalTokens +=
\* result.totalOriginal; if (result.totalSaved > 0) stats.compressed++
AddTotals(st, result) ==
    [st EXCEPT !.tokensSaved = @ + result.totalSaved,
               !.originalTokens = @ + result.totalOriginal,
               !.compressed = IF result.totalSaved > 0 THEN @ + 1 ELSE @]

\* forwardToAnthropic up to proxyReq.end(): the upstream request is opened
\* and the body, if there is one, written to it.
forwardToAnthropic(q) ==
    [q EXCEPT !.pc = "forwarding", !.opens = @ + 1, !.sent = q.body,
              !.fwd = forwardHeaders(q.headers, q.body)]

\* handleRequest from the return of processPayload: body = result.body,
\* (the stats, by AddTotals), forwardToAnthropic.
afterPayload(q, p) ==
    forwardToAnthropic([q EXCEPT !.body = p.result.body, !.result = p.result,
                                 !.transformed = TRUE, !.how = p.how, !.w = p.w])

\* handleRequest not waiting for processPayload: the forward starts at the
\* first stop, with the body as it was read.
atStopNoAwait(q, p) ==
    IF p.stop = "await"
    THEN forwardToAnthropic([q EXCEPT !.w = p.w, !.call = p.call])
    ELSE afterPayload(q, p)

\* handleRequest at a stop p of processPayload: suspended on the await, or
\* going on with the result.
atStop(q, p) ==
    IF p.stop = "await"
    THEN [q EXCEPT !.pc = "compressing", !.w = p.w, !.call = p.call]
    ELSE afterPayload(q, p)

statsAtStop(st, p) == IF p.stop = "return" THEN AddTotals(st, p.result) ELSE st

\* clientRes.writeHead(status, headers): throws ERR_HTTP_HEADERS_SENT once a
\* head was written.
writeHeadNeverThrows(q) == FALSE
writeHeadThrows(q) == Len(q.head) > 0
writeHead(q, status, headers) ==
    [q EXCEPT !.head = Append(@, status), !.rheaders = headers]

\* The https.request callback answering 200 whatever the upstream's status.
onResponseOK(q, status, headers) ==
    [writeHead(q, 200, spread(headers)) EXCEPT !.pc = "relaying"]

\* The https.request callback: responseHeaders = { ...proxyRes.headers };
\* clientRes.writeHead(proxyRes.statusCode, responseHeaders);
\* proxyRes.pipe(clientRes).
onResponse(q, status, headers) ==
    [writeHead(q, status, spread(headers)) EXCEPT !.pc = "relaying"]

\* The pipe's 'data' listener: clientRes.write(chunk).
pipeData(q, chunk) == [q EXCEPT !.chunks = Append(@, chunk)]

\* Method, and whether the path includes "/messages".
RequestLines == {<<"POST", TRUE>>, <<"GET", TRUE>>, <<"POST", FALSE>>}

\* Whether a request received before r is suspended in processPayload when
\* that of r returns with savings.
Mark(r, q, p) ==
    IF p.stop = "return" /\ p.result.totalSaved > 0
    THEN [q EXCEPT !.during = \E o \in Reqs : o < r /\ rq[o].pc = "compressing"]
    ELSE q

\* handleRequest is called: stats.requests++, and the body is awaited.
Arrive(r, lines, bodies, framings) ==
    /\ ~crashed
    /\ rq[r].pc = "idle"
    /\ \A o \in Reqs : o < r => rq[o].pc # "idle"
    /\ \E line \in lines, inbound \in bodies, framing \in framings :
          LET q == [rq[r] EXCEPT !.pc = "reading", !.method = line[1],
                                 !.url = line[2], !.inbound = inbound,
                                 !.headers = InHeaders(inbound, framing)]
          IN /\ rq' = [rq EXCEPT ![r] = q]
             /\ stats' = CountRequest(stats, q)
    /\ UNCHANGED <<ttcKey, crashed, ct>>

\* The inbound body has ended: body is set, processPayload runs to its first
\* stop if the request is eligible, and the request is forwarded unless
\* processPayload is suspended.
BodyRead(r) ==
    /\ ~crashed
    /\ rq[r].pc = "reading"
    /\ LET q == [rq[r] EXCEPT !.body = toString(rq[r].inbound)] IN
       IF isMessagesEndpoint(q) /\ q.body.kind # "none"
       THEN LET p == processPayload(q.body) IN
            /\ rq' = [rq EXCEPT ![r] = Mark(r, atStop(q, p), p)]
            /\ stats' = statsAtStop(stats, p)
       ELSE /\ rq' = [rq EXCEPT ![r] = forwardToAnthropic(q)]
            /\ stats' = stats
    /\ UNCHANGED <<ttcKey, crashed, ct>>

\* What the log keeps of a call that settled at position w.
Settled(w, c) ==
    [i |-> w.i, j |-> w.j, text |-> c.text, via |-> c.via, kind |-> c.data.kind,
     result |-> c.result]

\* An event of the compression call of request r has run its listener (c is
\* the call after it). If that settled the promise, processPayload resumes
\* and runs to its next stop.
CallEvent(r, c) ==
    LET q == rq[r] IN
    IF q.pc = "compressing" /\ ~q.call.settled /\ c.settled
    THEN LET p == resumePayload(q.body, q.w, c.result)
             q1 == [q EXCEPT !.call = c, !.log = Append(@, Settled(q.w, c))]
         IN /\ rq' = [rq EXCEPT ![r] = Mark(r, atStop(q1, p), p)]
            /\ stats' = statsAtStop(stats, p)
    ELSE /\ rq' = [rq EXCEPT ![r].call = c]
         /\ stats' = stats

\* The responses of the compression service a request meets.
ReqResponses ==
    {[kind |-> "garbage", output |-> EmptyText, output_tokens |-> 0, original_input_tokens |-> 0]}
    \cup {[kind |-> "obj", output |-> [id |-> "b", len |-> minTextLength - 1],
           output_tokens |-> t, original_input_tokens |-> MaxTok] : t \in 1..MaxTok}

\* The response of the compression service ends with one of the bodies of
\* responses: res.on("end") runs.
ResEndWith(r, responses) ==
    /\ ~crashed
    /\ CanEnd(rq[r].call)
    /\ \E data \in responses : CallEvent(r, resOnEnd(rq[r].call, data))
    /\ UNCHANGED <<ttcKey, crashed, ct>>

ResEnd(r) == ResEndWith(r, ReqResponses)

ReqError(r) ==
    /\ ~crashed
    /\ CanError(rq[r].call)
    /\ CallEvent(r, reqOnError(rq[r].call))
    /\ UNCHANGED <<ttcKey, crashed, ct>>

ReqTimeout(r) ==
    /\ ~crashed
    /\ CanTimeout(rq[r].call)
    /\ CallEvent(r, reqOnTimeout(rq[r].call))
    /\ UNCHANGED <<ttcKey, crashed, ct>>

ResAborted(r) ==
    /\ ~crashed
    /\ CanAbort(rq[r].call)
    /\ CallEvent(r, resAborted(rq[r].call))
    /\ UNCHANGED <<ttcKey, crashed, ct>>

\* ------------------------------------------------- forwardToAnthropic events
\* The status codes the upstream answers with.
Statuses == {200, 529}

\* The upstream's response head arrives: the https.request callback runs.
UpResponse(r, statuses, upheaders) ==
    /\ ~crashed
    /\ rq[r].pc = "forwarding"
    /\ \E status \in statuses, headers \in upheaders :
          rq' = [rq EXCEPT ![r] = [onResponse(rq[r], status, headers) EXCEPT
                                     !.up = [status |-> status, headers |-> headers,
                                             chunks |-> <<>>]]]
    /\ UNCHANGED <<ttcKey, stats, crashed, ct>>

\* A chunk of the upstream body arrives (the k-th is named k): the pipe
\* passes it on to the caller.
UpData(r) ==
    /\ ~crashed
    /\ rq[r].pc = "relaying"
    /\ Len(rq[r].up.chunks) < MaxChunks
    /\ LET chunk == Len(rq[r].up.chunks) + 1 IN
       rq' = [rq EXCEPT ![r] = [pipeData(rq[r], chunk) EXCEPT
                                  !.up.chunks = Append(@, chunk)]]
    /\ UNCHANGED <<ttcKey, stats, crashed, ct>>

\* proxyRes ends: the pipe ends clientRes.
UpEnd(r) ==
    /\ ~crashed
    /\ rq[r].pc = "relaying"
    /\ rq' = [rq EXCEPT ![r].pc = "done", ![r].ended = TRUE]
    /\ UNCHANGED <<ttcKey, stats, crashed, ct>>

\* proxyReq.on("error"): clientRes.writeHead(502); clientRes.end(...). Node
\* emits 'error' on the request for a socket error before the response
\* (connection refused, reset, DNS) and after it has begun (reset while the
\* body is relayed). In the second case writeHead throws inside the
\* listener: nothing catches it and the process exits.
UpError(r) ==
    /\ ~crashed
    /\ rq[r].pc \in {"forwarding", "relaying"}
    /\ IF writeHeadThrows(rq[r])
       THEN /\ crashed' = TRUE
            /\ rq' = [rq EXCEPT ![r].upfail = TRUE]
       ELSE /\ crashed' = crashed
            /\ rq' = [rq EXCEPT ![r] = [writeHead(rq[r], 502, NoHeaders) EXCEPT
                                           !.pc = "done", !.diag = TRUE, !.ended = TRUE,
                                           !.upfail = TRUE]]
    /\ UNCHANGED <<ttcKey, stats, ct>>

\* The upstream closes the connection before the end of its response: Node
\* emits 'aborted' and 'close' on proxyRes, no 'end' and no 'error' on
\* proxyReq; the pipe does not end its destination.
UpAborted(r) ==
    /\ ~crashed
    /\ rq[r].pc = "relaying"
    /\ rq' = [rq EXCEPT ![r].pc = "stalled", ![r].upfail = TRUE]
    /\ UNCHANGED <<ttcKey, stats, crashed, ct>>

\* ------------------------------------------------------ the caller goes away
\* The inbound connection drops or errors. While the body is read, the
\* for await of handleRequest throws: its promise is rejected and nothing
\* handles the rejection, which ends the process (Node 15 and later) or is
\* only warned about (before). Later, the handler goes on writing to a
\* response nobody reads.
InboundAborted(r) ==
    /\ ~crashed
    /\ ~rq[r].dropped
    /\ rq[r].pc \in {"reading", "compressing", "forwarding", "relaying"}
    /\ IF rq[r].pc = "reading"
       THEN /\ rq' = [rq EXCEPT ![r].dropped = TRUE, ![r].rejected = TRUE,
                                ![r].pc = "abandoned"]
            /\ crashed' \in BOOLEAN
       ELSE /\ rq' = [rq EXCEPT ![r].dropped = TRUE]
            /\ crashed' = crashed
    /\ UNCHANGED <<ttcKey, stats, ct>>

\* --------------------------------------------------------------- payloads
\* The shapes of a message.
MsgShapes ==
    { Null,
      Msg("system", Str(LongA), "7"),
      Msg("user", Str(LongA), "7"),
      Msg("user", Str(ShortA), "7"),
      Msg("assistant", Str(LongB), "7"),
      Msg("user", Null, "7"),
      Msg("user", Arr(<<Block("text", LongA, "7"), Block("tool_use", LongB, "9007199254740993")>>), "7"),
      Msg("user", Arr(<<Block("text", ShortA, "7"), Block("text", LongB, "7")>>), "7"),
      Msg("user", Arr(<<Block("text", LongA, "7"), Null>>), "7"),
      Msg("assistant", Arr(<<Block("tool_use", EmptyText, "7"), Block("text", LongA, "7")>>), "7") }

SeqsUpTo(S, n) == UNION {[1..k -> S] : k \in 0..n}

\* Bodies of every shape, for one request.
AllBodies ==
    {NoBody, Garbage, Binary, Json(Null), Json(Num("7")),
     Json(Payload(Undef, "7")), Json(Payload(Null, "7")), Json(Payload(Num("7"), "7"))}
    \cup {Json(Payload(Arr(ms), "7")) : ms \in SeqsUpTo(MsgShapes, MaxMsgs)}

\* The request lines and bodies the concurrent requests carry.
Lines == {<<"POST", TRUE>>, <<"GET", TRUE>>}
Bodies == {NoBody, Json(Payload(Arr(<<Msg("user", Str(LongA), "7")>>), "7"))}

\* ------------------------------------------------- the initial process state
\* const stats = { requests: 0, compressed: 0, tokensSaved: 0, originalTokens: 0 }
StatsInit == [requests |-> 0, compressed |-> 0, tokensSaved |-> 0, originalTokens |-> 0]

\* ------------------------------------------- compressText observed on its own
\* One call of compressText(text), for every text and every configuration.
CtInit ==
    /\ ttcKey \in BOOLEAN
    /\ stats = StatsInit
    /\ crashed = FALSE
    /\ rq = <<>>
    /\ ct \in {[NoCall EXCEPT !.text = t] : t \in Texts}

CtCall ==
    /\ ct.via = "none" /\ ct.net = "none"
    /\ ct' = compressText(ct.text)
    /\ UNCHANGED <<ttcKey, stats, crashed, rq>>

CtResEnd ==
    /\ CanEnd(ct)
    /\ \E data \in Responses : ct' = resOnEnd(ct, data)
    /\ UNCHANGED <<ttcKey, stats, crashed, rq>>

CtReqError ==
    /\ CanError(ct)
    /\ ct' = reqOnError(ct)
    /\ UNCHANGED <<ttcKey, stats, crashed, rq>>

CtReqTimeout ==
    /\ CanTimeout(ct)
    /\ ct' = reqOnTimeout(ct)
    /\ UNCHANGED <<ttcKey, stats, crashed, rq>>

CtResAborted ==
    /\ CanAbort(ct)
    /\ ct' = resAborted(ct)
    /\ UNCHANGED <<ttcKey, stats, crashed, rq>>

CtNext == CtCall \/ CtResEnd \/ CtReqError \/ CtReqTimeout \/ CtResAborted

SpecCompress == CtInit /\ [][CtNext]_vars

\* ------------------------------------------------------- the whole proxy
Init ==
    /\ ttcKey \in BOOLEAN
    /\ stats = StatsInit
    /\ crashed = FALSE
    /\ rq = [r \in Reqs |-> IdleReq]
    /\ ct = NoCall

Events(r, statuses, upheaders) ==
    \/ BodyRead(r)
    \/ ResEnd(r) \/ ReqError(r) \/ ReqTimeout(r) \/ ResAborted(r)
    \/ UpResponse(r, statuses, upheaders) \/ UpEnd(r) \/ UpError(r) \/ UpAborted(r)

\* The requests handled together: any interleaving of their handlers. The
\* upstream answers 200 (the heads and chunks relayed are followed with one
\* request, below).
Next ==
    \E r \in Reqs :
        \/ Arrive(r, Lines, Bodies, {"length"})
        \/ Events(r, {200}, {JsonHeaders})

Spec == Init /\ [][Next]_vars

\* The same requests, with a compression service that reports any token
\* counts: nothing in compressText checks what the service sends.
AnyCounts ==
    {[kind |-> "obj", output |-> [id |-> "b", len |-> minTextLength - 1],
      output_tokens |-> t, original_input_tokens |-> n] :
        t \in TokenCounts, n \in TokenCounts}

StatsNext == Next \/ \E r \in Reqs : ResEndWith(r, AnyCounts)

SpecStats == Init /\ [][StatsNext]_vars

\* The same requests, with callers that go away.
DropNext == Next \/ \E r \in Reqs : InboundAborted(r)

SpecDrop == Init /\ [][DropNext]_vars

\* One request, with a body of any shape and any status of the upstream
\* (its chunks are followed below).
OneNext ==
    \/ Arrive(1, RequestLines, AllBodies, {"length"})
    \/ Events(1, Statuses, {JsonHeaders})

SpecOne == Init /\ [][OneNext]_vars

\* One request followed through the forwarder: every framing of its body,
\* every head and every chunk of the upstream's response.
RelayBodies ==
    {NoBody, Binary,
     Json(Payload(Arr(<<Msg("user", Arr(<<Block("text", LongA, "7"),
                                          Block("text", LongB, "7")>>), "7")>>), "7"))}

RelayNext ==
    \/ Arrive(1, RequestLines, RelayBodies, Framings)
    \/ Events(1, Statuses, UpHeaders)
    \/ UpData(1)

SpecRelay == Init /\ [][RelayNext]_vars

\* One request, and beside it one call of compressText for every text.
SkipInit ==
    /\ ttcKey \in BOOLEAN
    /\ stats = StatsInit
    /\ crashed = FALSE
    /\ rq = [r \in Reqs |-> IdleReq]
    /\ ct \in {[NoCall EXCEPT !.text = t] : t \in Texts}

SkipNext ==
    \/ CtCall
    \/ Arrive(1, Lines, Bodies, {"length"})
    \/ Events(1, Statuses, {JsonHeaders})

SpecSkip == SkipInit /\ [][SkipNext]_vars

\* ------------------------------------------------------------------ claims

\* C3: for every text and every response of the service, the result of
\* compressText has 0 <= saved <= original, and a skipped or failed call
\* returns the input text with saved = original = 0.
C3_SavedWithinOriginal ==
    ct.settled =>
        /\ 0 <= ct.result.saved
        /\ 0 <= ct.result.original
        /\ ct.result.saved <= ct.result.original
        /\ (ct.via \in {"skip", "error", "timeout"} \/ ct.data.kind \in {"garbage", "null"})
              => ct.result = Fallback(ct.text)

\* C10: on a well-formed response the service's output is returned only if
\* output_tokens < original_input_tokens; with output_tokens >=
\* original_input_tokens the result is the fallback.
C10_AcceptOnlyIfSmaller ==
    (ct.settled /\ ct.via = "end" /\ ct.data.kind = "obj") =>
        /\ (ct.result # Fallback(ct.text)) =>
              /\ ct.data.output_tokens < ct.data.original_input_tokens
              /\ ct.result.text = ct.data.output
              /\ ct.result.saved > 0
        /\ (ct.data.output_tokens >= ct.data.original_input_tokens) =>
              ct.result = Fallback(ct.text)

\* C10 witness: both branches decided on a well-formed response.
C10_Witness ==
    /\ ct.settled /\ ct.via = "end" /\ ct.data.kind = "obj"
    /\ Truthy(ct.data.output)
    /\ ct.data.output_tokens = ct.data.original_input_tokens
    /\ ct.result = Fallback(ct.text)

\* -------------------------------------------------------- claims on requests
\* The text at message i, block j of a decoded payload (block 1 of a string
\* content is the string).
TextAt(val, i, j) ==
    LET c == val.messages.a[i].content IN
    IF c.t = "str" THEN c.s ELSE c.a[j].text

\* The places of a decoded payload that hold a text: <<i, 1>> for a string
\* content, <<i, j>> for block j of an array content.
Positions(val) ==
    UNION {LET m == val.messages.a[i] IN
           IF m.t # "obj" THEN {}
           ELSE IF m.content.t = "str" THEN {<<i, 1>>}
           ELSE IF m.content.t = "arr"
           THEN {<<i, j>> : j \in {k \in DOMAIN m.content.a : m.content.a[k].t = "obj"}}
           ELSE {} : i \in DOMAIN val.messages.a}

\* Two payloads hold the same texts at the same places.
TextsKept(in, out) ==
    /\ Positions(in) = Positions(out)
    /\ \A p \in Positions(in) : TextAt(in, p[1], p[2]) = TextAt(out, p[1], p[2])

Transformed == {r \in Reqs : rq[r].transformed}
Received == {r \in Reqs : rq[r].pc # "idle"}
FailedCall(e) == e.via \in {"error", "timeout"} \/ (e.via = "end" /\ e.kind = "garbage")

\* C1: every request whose body was read gets a response: no reachable
\* state holds a request whose response is not ended and for which nothing
\* more can happen.
C1_EveryRequestAnswered ==
    \A r \in Reqs :
        (rq[r].pc \notin {"idle", "reading"} /\ ~rq[r].ended) => ENABLED Events(r, Statuses, {JsonHeaders})

\* C2: after any failure of the upstream connection, before or after the
\* response began, the caller has the 502 head with its diagnostic body and
\* its response is ended.
C2_UpstreamFailureGives502 ==
    \A r \in Reqs :
        rq[r].upfail => (rq[r].head = <<502>> /\ rq[r].diag /\ rq[r].ended)

\* A compression call that timed out, hit a transport error or got a
\* malformed response contributes zero, leaves processPayload running (the
\* request goes on to its next call or is forwarded), and the body forwarded
\* holds the original text at that place.
HandledFailuresFallBack ==
    \A r \in Reqs : \A k \in DOMAIN rq[r].log :
        LET e == rq[r].log[k] IN
        FailedCall(e) =>
            /\ e.result.saved = 0 /\ e.result.original = 0
            /\ rq[r].pc \in {"compressing", "forwarding", "relaying", "done", "stalled"}
            /\ rq[r].pc = "compressing" =>
                  \/ rq[r].w.i > e.i
                  \/ rq[r].w.i = e.i /\ rq[r].w.j > e.j
            /\ rq[r].pc # "compressing" =>
                  /\ rq[r].transformed /\ rq[r].opens = 1
                  /\ rq[r].sent = rq[r].result.body
                  /\ TextAt(rq[r].sent.val, e.i, e.j) = e.text

\* A request whose compression call timed out and whose next call got a
\* malformed response was forwarded with the original texts, and the
\* upstream's answer was relayed to its end.
HandledFailuresReached ==
    \E r \in Reqs :
        /\ rq[r].pc = "done" /\ rq[r].head = <<200>>
        /\ \E k \in DOMAIN rq[r].log : rq[r].log[k].via = "timeout"
        /\ \E k \in DOMAIN rq[r].log : rq[r].log[k].kind = "garbage"
        /\ rq[r].result.totalSaved = 0

\* C4: no failure of a compression call reaches the caller: whether the call
\* timed out, hit a transport error, got a malformed response or lost its
\* connection in the middle of the response, its promise is settled with the
\* fallback, and the request goes on to be forwarded with the original text.
C4_CompressionFailureNotSurfaced ==
    /\ HandledFailuresFallBack
    /\ \A r \in Reqs :
          (rq[r].call.net \in {"closed", "destroyed"}) =>
              /\ rq[r].call.settled
              /\ rq[r].call.via # "end" => rq[r].call.result = Fallback(rq[r].call.text)

\* C5: when the body does not decode, has no messages, or an exception is
\* raised on the way, processPayload returns the original body string and
\* zero totals.
C5_FailureReturnsOriginal ==
    \A r \in Reqs :
        (rq[r].transformed /\ rq[r].how \in {"throw", "nomessages"}) =>
            rq[r].result = [body |-> toString(rq[r].inbound), totalSaved |-> 0, totalOriginal |-> 0]

\* C5 witness: a null entry was met after an earlier block had been
\* compressed in place.
C5_Witness ==
    \E r \in Reqs :
        /\ rq[r].transformed /\ rq[r].how = "throw"
        /\ rq[r].w.totalSaved > 0
        /\ rq[r].w.work # JSONparse(rq[r].inbound)

\* What C6 asks of the re-encoded payload out for the payload in.
BlockKept(in, out) ==
    IF in.t = "obj" /\ in.type = "text" /\ Truthy(in.text) /\ in.text.len > minTextLength
    THEN out.t = "obj" /\ out.type = in.type /\ out.extra = in.extra
    ELSE out = in
ContentKept(in, out) ==
    IF in.t = "str"
    THEN in.s.len > minTextLength \/ out = in
    ELSE IF in.t = "arr"
    THEN /\ out.t = "arr" /\ Len(out.a) = Len(in.a)
         /\ \A j \in DOMAIN in.a : BlockKept(in.a[j], out.a[j])
    ELSE out = in
MsgKept(in, out) ==
    IF in.t = "obj" /\ in.role \in {"user", "assistant"}
    THEN /\ out.t = "obj" /\ out.role = in.role /\ out.extra = in.extra
         /\ ContentKept(in.content, out.content)
    ELSE out = in
PayloadKept(in, out) ==
    /\ out.t = "obj" /\ out.extra = in.extra
    /\ out.messages.t = "arr" /\ Len(out.messages.a) = Len(in.messages.a)
    /\ \A i \in DOMAIN in.messages.a : MsgKept(in.messages.a[i], out.messages.a[i])

\* C6: in a payload that processPayload re-encodes, every message, block and
\* field that is not eligible for compression is as it was in the body
\* received, at the same place.
C6_IneligiblePreserved ==
    \A r \in Reqs :
        (rq[r].transformed /\ rq[r].how = "end") =>
            /\ rq[r].result.body.kind = "json"
            /\ PayloadKept(rq[r].inbound.val, rq[r].result.body.val)

\* Apart from the numbers JSON.parse rounds, the re-encoded payload keeps what
\* is not eligible: the decoded payload, not the body received, is what
\* survives.
IneligibleKeptAsDecoded ==
    \A r \in Reqs :
        (rq[r].transformed /\ rq[r].how = "end") =>
            PayloadKept(JSONparse(rq[r].inbound), rq[r].result.body.val)

\* C7: the lifetime request counter equals the number of requests received,
\* whatever their eligibility and outcome.
C7_OneCountPerRequest == stats.requests = Cardinality(Received)

\* C7 witness: every request was received, one of them not eligible and one
\* answered 502.
C7_Witness ==
    /\ stats.requests = NReq
    /\ \E r \in Reqs : ~isMessagesEndpoint(rq[r]) /\ rq[r].pc = "done"
    /\ \E r \in Reqs : rq[r].head = <<502>>

\* C8: the lifetime totals are the sums of the totals of the requests whose
\* transformation has finished, and compressed counts those that saved.
C8_NoLostUpdate ==
    /\ stats.tokensSaved = SumOver([r \in Reqs |-> rq[r].result.totalSaved], Transformed)
    /\ stats.originalTokens = SumOver([r \in Reqs |-> rq[r].result.totalOriginal], Transformed)
    /\ stats.compressed = Cardinality({r \in Transformed : rq[r].result.totalSaved > 0})

\* C8 witness: two requests each saved tokens, the second received having
\* finished its transformation while the first was suspended in its own.
C8_Witness ==
    \E r1, r2 \in Reqs :
        /\ r1 < r2 /\ rq[r2].during
        /\ rq[r1].transformed /\ rq[r1].result.totalSaved > 0
        /\ rq[r2].transformed /\ rq[r2].result.totalSaved > 0
        /\ rq[r1].pc = "done" /\ rq[r2].pc = "done"
        /\ stats.tokensSaved = rq[r1].result.totalSaved + rq[r2].result.totalSaved

Called(c) == c.via # "none" \/ c.net # "none"

\* C11: compressText called without a credential, with an empty text or with
\* a text shorter than the threshold issues no request and returns the
\* fallback at once; without a credential a POST to the endpoint with a long
\* message is forwarded with its texts as received and zero totals, and the
\* status the upstream answers is the one written to the caller.
C11_SkipIssuesNoCall ==
    /\ (Called(ct) /\ (~ttcKey \/ ct.text.len = 0 \/ ct.text.len < minTextLength)) =>
          /\ ct.net = "none" /\ ct.settled
          /\ ct.result = [text |-> ct.text, saved |-> 0, original |-> 0]
    /\ \A r \in Reqs :
          LET q == rq[r] IN
          (~ttcKey /\ q.method = "POST" /\ q.url /\ q.inbound.kind = "json") =>
              /\ q.call.net = "none" /\ q.log = <<>> /\ q.pc # "compressing"
              /\ q.pc \in {"forwarding", "relaying", "done", "stalled"} =>
                    /\ q.opens = 1 /\ q.transformed
                    /\ q.result.totalSaved = 0 /\ q.result.totalOriginal = 0
                    /\ q.sent.kind = "json" /\ TextsKept(q.inbound.val, q.sent.val)
                    /\ stats.tokensSaved = 0 /\ stats.originalTokens = 0
                    /\ stats.compressed = 0
              /\ q.up.status # 0 => q.head = <<q.up.status>>

\* C11 witness: without a credential a call for a long text was skipped, and
\* a request with a long message was forwarded as it was and answered with
\* the upstream's 529.
C11_Witness ==
    /\ ~ttcKey /\ ct.via = "skip" /\ ct.text = LongA /\ ct.net = "none"
    /\ rq[1].pc = "done" /\ rq[1].transformed /\ rq[1].head = <<529>>
    /\ TextAt(rq[1].sent.val, 1, 1) = LongA

\* ------------------------------------------------- the result of a call
\* Once the promise of a call is settled, no later event of the call (the
\* error raised by req.destroy() after a timeout, an end after an error)
\* changes its result.
ResultFixedByFirstEvent ==
    [][ct.settled => (ct'.settled /\ ct'.result = ct.result /\ ct'.via = ct.via)]_vars

\* The error that follows a timeout found the promise settled.
LateEventReached == ct.via = "timeout" /\ ct.net = "closed"

\* C12: every compressText call yields a result: a call that was issued and
\* whose outbound request is over (ended, failed, timed out and destroyed, or
\* closed) has its promise settled.
C12_EveryCallYieldsResult ==
    (Called(ct) /\ ct.net \in {"none", "closed", "destroyed"}) => ct.settled

\* ------------------------------------------------- the totals of a payload
\* The compression of a logged call was accepted: its result is not the
\* fallback.
Accepted(e) == e.result # [text |-> e.text, saved |-> 0, original |-> 0]

\* C13: for a payload walked to its end, totalSaved and totalOriginal are the
\* sums of the saved and original counts of the calls that went out, the
\* body returned (and forwarded) holds the result's text at every place
\* whose compression was accepted and the text received at every other.
C13_TotalsAreSums ==
    \A r \in Reqs :
        LET q == rq[r] IN
        (q.transformed /\ q.how = "end") =>
            /\ q.result.totalSaved =
                   SumOver([k \in DOMAIN q.log |-> q.log[k].result.saved], DOMAIN q.log)
            /\ q.result.totalOriginal =
                   SumOver([k \in DOMAIN q.log |-> q.log[k].result.original], DOMAIN q.log)
            /\ q.result.body.kind = "json"
            /\ q.opens = 1 /\ q.sent = q.result.body
            /\ Positions(q.sent.val) = Positions(q.inbound.val)
            /\ \A k \in DOMAIN q.log : <<q.log[k].i, q.log[k].j>> \in Positions(q.inbound.val)
            /\ \A p \in Positions(q.inbound.val) :
                  LET at == {k \in DOMAIN q.log : q.log[k].i = p[1] /\ q.log[k].j = p[2]} IN
                  /\ Cardinality(at) <= 1
                  /\ \A k \in at : q.log[k].text = TextAt(q.inbound.val, p[1], p[2])
                  /\ TextAt(q.sent.val, p[1], p[2]) =
                        IF \E k \in at : Accepted(q.log[k])
                        THEN q.log[CHOOSE k \in at : TRUE].result.text
                        ELSE TextAt(q.inbound.val, p[1], p[2])

\* C13 witness: of two calls the first was accepted and the second got a
\* malformed response; the totals are those of the first, whose text alone
\* is replaced in the body forwarded.
C13_Witness ==
    \E r \in Reqs :
        LET q == rq[r] IN
        /\ q.transformed /\ q.how = "end" /\ q.opens = 1 /\ Len(q.log) = 2
        /\ q.log[1].result.saved > 0 /\ q.log[2].kind = "garbage"
        /\ q.result.totalSaved = q.log[1].result.saved
        /\ q.result.totalOriginal = q.log[1].result.original
        /\ TextAt(q.sent.val, q.log[1].i, q.log[1].j) = q.log[1].result.text
        /\ TextAt(q.sent.val, q.log[2].i, q.log[2].j) = q.log[2].text

\* ------------------------------------------------------------ eligibility
\* The request is past the reading of its body.
PastReading(q) == q.pc \in {"compressing", "forwarding", "relaying", "done", "stalled"}

\* POST, a path of the messages endpoint, and a body.
Eligible(q) == q.method = "POST" /\ q.url /\ q.inbound.kind # "none"

\* processPayload was called for the request.
Invoked(q) == q.transformed \/ q.pc = "compressing"

\* processPayload is called for the eligible requests and no other, and a
\* request that is not eligible is forwarded with the string its body
\* decoded to and leaves the totals alone.
EligibilityDecidesTransform ==
    \A r \in Reqs :
        LET q == rq[r] IN
        PastReading(q) =>
            /\ Invoked(q) <=> Eligible(q)
            /\ ~Eligible(q) =>
                  /\ q.sent = toString(q.inbound)
                  /\ stats.tokensSaved = 0 /\ stats.originalTokens = 0
                  /\ stats.compressed = 0

\* C14: processPayload is called for a request if and only if it is a POST
\* to the messages endpoint with a body; every other request is forwarded
\* with the body it was received with, and leaves tokensSaved,
\* originalTokens and compressed as they were.
C14_TransformIffEligible ==
    \A r \in Reqs :
        LET q == rq[r] IN
        PastReading(q) =>
            /\ Invoked(q) <=> Eligible(q)
            /\ ~Eligible(q) =>
                  /\ q.sent = q.inbound
                  /\ stats.tokensSaved = 0 /\ stats.originalTokens = 0
                  /\ stats.compressed = 0

\* ----------------------------------------------------------- the forwarder
\* C15: once the upstream has responded, the caller has been written the
\* upstream's status and its header object as they came, and after them
\* every chunk of the upstream body that has arrived so far, in the order of
\* arrival, whether or not the upstream response has ended; no chunk is
\* written without a head.
C15_RelayHeadThenChunks ==
    \A r \in Reqs :
        LET q == rq[r] IN
        /\ q.up.status # 0 =>
              /\ q.head = <<q.up.status>>
              /\ q.rheaders = q.up.headers
              /\ q.chunks = q.up.chunks
        /\ q.chunks # <<>> => (q.up.status # 0 /\ q.head # <<>>)

\* C15 witness: the upstream answered 529 with the headers of an event
\* stream; two chunks have reached the caller in their order and the
\* response has not ended.
C15_Witness ==
    \E r \in Reqs :
        /\ rq[r].pc = "relaying" /\ ~rq[r].ended
        /\ rq[r].head = <<529>> /\ rq[r].rheaders = SseHeaders
        /\ rq[r].chunks = <<1, 2>>

HopByHop == {"connection", "keep-alive", "transfer-encoding"}

\* C16: the headers of the upstream request are the inbound ones, except
\* that host is the upstream's name, connection, keep-alive and
\* transfer-encoding are absent and, with a body, content-length is the
\* byte length of the body sent; every other header is there with the
\* value it came with and no header is added.
C16_ForwardedHeaders ==
    \A r \in Reqs :
        LET q == rq[r]
            set == {"host"} \cup (IF q.sent.kind # "none" THEN {"content-length"} ELSE {})
        IN
        q.opens = 1 =>
            /\ DOMAIN q.fwd = (DOMAIN q.headers \ HopByHop) \cup set
            /\ q.fwd["host"] = "api.anthropic.com"
            /\ q.sent.kind # "none" => q.fwd["content-length"] = byteLength(q.sent)
            /\ \A n \in DOMAIN q.fwd \ set : q.fwd[n] = q.headers[n]

\* C16 witness: a request sent chunked by its caller was transformed with
\* savings; the upstream request carries the length of the rewritten body,
\* the caller's key and version, and none of the hop-by-hop headers.
C16_Witness ==
    \E r \in Reqs :
        LET q == rq[r] IN
        /\ q.opens = 1 /\ q.transformed /\ q.result.totalSaved > 0
        /\ "transfer-encoding" \in DOMAIN q.headers
        /\ "keep-alive" \in DOMAIN q.headers
        /\ q.fwd["content-length"] = byteLength(q.sent)
        /\ byteLength(q.sent) < byteLength(q.inbound)
        /\ q.fwd["x-api-key"] = "key" /\ q.fwd["anthropic-version"] = "2023-06-01"

\* ------------------------------------------------- the order of the calls
\* The text at place p of a decoded payload is one processPayload sends to
\* compression.
EligibleAt(val, p) ==
    LET m == val.messages.a[p[1]] IN
    /\ m.role \in {"user", "assistant"}
    /\ IF m.content.t = "str" THEN m.content.s.len > minTextLength
       ELSE /\ m.content.a[p[2]].type = "text"
            /\ m.content.a[p[2]].text.len > minTextLength

Before(p, i, j) == p[1] < i \/ (p[1] = i /\ p[2] < j)

\* While processPayload awaits the call for one place, the call of every
\* eligible place before it has returned, and none was made for a place
\* after it.
CallsAreSequential ==
    \A r \in Reqs :
        LET q == rq[r] IN
        q.pc = "compressing" =>
            /\ \A p \in Positions(q.inbound.val) :
                  (EligibleAt(q.inbound.val, p) /\ Before(p, q.w.i, q.w.j)) =>
                      \E k \in DOMAIN q.log : q.log[k].i = p[1] /\ q.log[k].j = p[2]
            /\ \A k \in DOMAIN q.log : Before(<<q.log[k].i, q.log[k].j>>, q.w.i, q.w.j)

\* C17: the compression calls of a request are issued together: while the
\* call for one block is outstanding, no eligible block after it is still
\* waiting for its own call to be issued.
C17_CallsIssuedTogether ==
    \A r \in Reqs :
        LET q == rq[r] IN
        (q.pc = "compressing" /\ q.call.net = "open") =>
            Walk(ApplyResult(q.w, Fallback(q.call.text))).stop # "await"

\* ------------------------------------------- when the counters are written
\* The requests whose response has been ended.
Completed == {r \in Reqs : rq[r].ended}

\* C18: the lifetime counters account only for requests that have
\* completed: requests counts no request still being read, transformed or
\* forwarded, and tokensSaved, originalTokens and compressed hold nothing of
\* such a request.
C18_CountersAfterCompletion ==
    /\ stats.requests <= Cardinality(Completed)
    /\ stats.tokensSaved <= SumOver([r \in Reqs |-> rq[r].result.totalSaved], Completed)
    /\ stats.originalTokens <= SumOver([r \in Reqs |-> rq[r].result.totalOriginal], Completed)
    /\ stats.compressed <= Cardinality({r \in Completed : rq[r].result.totalSaved > 0})

\* ------------------------------------------------- callers that go away
\* A caller lost while its request is compressed, forwarded or relayed
\* leaves the process running.
LateDropIsHarmless ==
    \A r \in Reqs :
        (rq[r].dropped /\ rq[r].pc # "abandoned") => ~rq[r].rejected

\* C19: a caller whose connection drops before its response is complete,
\* whether its body is being read, its texts compressed or its response
\* relayed, causes no unhandled exception and no unhandled rejection.
C19_InboundDropNeverCrashes == \A r \in Reqs : rq[r].dropped => ~rq[r].rejected

StatsWellFormed ==
    /\ stats.compressed <= stats.requests
    /\ stats.tokensSaved <= stats.originalTokens
    /\ stats.requests >= 0 /\ stats.compressed >= 0
    /\ stats.tokensSaved >= 0 /\ stats.originalTokens >= 0

CountersNeverDecrease ==
    [][/\ stats'.requests >= stats.requests
       /\ stats'.compressed >= stats.compressed
       /\ stats'.tokensSaved >= stats.tokensSaved
       /\ stats'.originalTokens >= stats.originalTokens]_vars

\* Requests of which one saved tokens have been counted.
StatsReached == stats.requests = NReq /\ stats.compressed >= 1 /\ stats.tokensSaved >= 1

\* C21: in every reachable state, whatever the interleaving of the requests
\* and whatever the compression service answers, compressed <= requests,
\* tokensSaved <= originalTokens, and the four counters are not negative.
C21_StatsInvariant ==
    /\ stats.compressed <= stats.requests
    /\ stats.tokensSaved <= stats.originalTokens
    /\ 0 <= stats.requests /\ 0 <= stats.compressed
    /\ 0 <= stats.tokensSaved /\ 0 <= stats.originalTokens

====
